---- MODULE Spec2Model ----
(***************************************************************************)
(* Booking engine (src/src/data_access/bookings_dao.py) and thread         *)
(* registry (src/src/data_access/messages_dao.py) of the campus resource   *)
(* hub with the request handlers that call them, modelled as a state       *)
(* machine over the bookings, admin_logs, threads and messages tables.     *)
(*                                                                         *)
(* Datetimes are stored as ISO-8601 text and compared by SQLite as text.   *)
(* All texts of one format (the form handler always writes                 *)
(* YYYY-MM-DDTHH:MM:SS, bookings.py:67-68) are ordered like the instants   *)
(* they denote, so a stored datetime is represented by its rank in that    *)
(* order: a number in Times.  created_at / updated_at are not modelled.    *)
(***************************************************************************)
EXTENDS Integers, Sequences, FiniteSets, TLC

\* ---------------------------------------------------------------- bounds
MaxBookings == 2
MaxTime == 2
MaxLcBookings == 1
MaxLog == 2
MaxApprovals == 1
MaxThreads == 1
MaxMessages == 2
MaxClock == 2
TicksPerDate == 2

\* ------------------------------------------------------- input domains
Resources == {1, 2}
Requesters == {1}
Approvers == {9}
Times == 0..MaxTime
NoNotes == "None"
Notes == {NoNotes, "n1"}
Workers == {"w1", "w2"}

\* ------------------------------------------------- users and resources
\* The users and resources tables are not written by the operations
\* modelled here.  Resources are created by staff (resources.py:173):
\* user 1 is a staff member who books and owns resource 2, user 2 is the
\* staff owner of resource 1, user 3 is a student and user 9 an
\* administrator.
Users == {1, 2, 3, 9}

role == [u \in Users |-> IF u = 9 THEN "admin" ELSE IF u = 3 THEN "student" ELSE "staff"]

is_admin(u) == role[u] = "admin"

owner_id == [r \in Resources |-> IF r = 1 THEN 2 ELSE 1]

\* ------------------------------------------------------------ statuses
Statuses == {"pending", "approved", "rejected", "cancelled", "completed"}
ActiveStatuses == {"pending", "approved"}
TerminalStatuses == {"rejected", "cancelled", "completed"}

VARIABLES bookings, admin_logs, ret, last, req, threads, messages, clock

vars == <<bookings, admin_logs, ret, last, req, threads, messages, clock>>

\* ------------------------------------------------------ pure functions

\* Variant of has_conflict whose status filter misses 'approved'.
has_conflict_pending_only(bk, resource_id, start_value, end_value, exclude) ==
    \E i \in DOMAIN bk :
        /\ bk[i].resource_id = resource_id
        /\ bk[i].status \in {"pending"}
        /\ ~(bk[i].end_datetime <= start_value \/ bk[i].start_datetime >= end_value)
        /\ (exclude # 0 => i # exclude)

\* Variant of has_conflict with closed intervals (< and > for <= and >=).
has_conflict_closed(bk, resource_id, start_value, end_value, exclude) ==
    \E i \in DOMAIN bk :
        /\ bk[i].resource_id = resource_id
        /\ bk[i].status \in {"pending", "approved"}
        /\ ~(bk[i].end_datetime < start_value \/ bk[i].start_datetime > end_value)
        /\ (exclude # 0 => i # exclude)

\* Variant of has_conflict that only looks at bookings starting inside the
\* requested slot.
has_conflict_start_inside(bk, resource_id, start_value, end_value, exclude) ==
    \E i \in DOMAIN bk :
        /\ bk[i].resource_id = resource_id
        /\ bk[i].status \in {"pending", "approved"}
        /\ bk[i].start_datetime >= start_value /\ bk[i].start_datetime < end_value
        /\ (exclude # 0 => i # exclude)

\* SELECT 1 FROM bookings WHERE resource_id = ? AND status IN (...)
\*   AND NOT (end_datetime <= ? OR start_datetime >= ?) [AND booking_id != ?]
\* exclude = 0 stands for exclude_booking_id = None (falsy in the code).
has_conflict(bk, resource_id, start_value, end_value, exclude) ==
    \E i \in DOMAIN bk :
        /\ bk[i].resource_id = resource_id
        /\ bk[i].status \in {"pending", "approved"}
        /\ ~(bk[i].end_datetime <= start_value \/ bk[i].start_datetime >= end_value)
        /\ (exclude # 0 => i # exclude)

\* Variant of NewBooking that ignores requires_approval.
NewBooking_always_pending(resource_id, requester_id, start_value, end_value, requires_approval, notes) ==
    [resource_id |-> resource_id,
     requester_id |-> requester_id,
     start_datetime |-> start_value,
     end_datetime |-> end_value,
     status |-> "pending",
     approval_notes |-> notes]

\* The row written by the INSERT of create_booking.
NewBooking(resource_id, requester_id, start_value, end_value, requires_approval, notes) ==
    [resource_id |-> resource_id,
     requester_id |-> requester_id,
     start_datetime |-> start_value,
     end_datetime |-> end_value,
     status |-> IF requires_approval THEN "pending" ELSE "approved",
     approval_notes |-> notes]

\* Variant of ApproveUpdate without the status = 'pending' condition.
ApproveUpdate_any_status(bk, booking_id, notes) ==
    [i \in DOMAIN bk |->
        IF i = booking_id
        THEN [bk[i] EXCEPT !.status = "approved", !.approval_notes = notes]
        ELSE bk[i]]

\* UPDATE bookings SET status = 'approved', approval_notes = ?
\*   WHERE booking_id = ? AND status = 'pending'
ApproveUpdate(bk, booking_id, notes) ==
    [i \in DOMAIN bk |->
        IF i = booking_id /\ bk[i].status = "pending"
        THEN [bk[i] EXCEPT !.status = "approved", !.approval_notes = notes]
        ELSE bk[i]]

\* Variant of RejectUpdate whose condition also lets approved rows through.
RejectUpdate_active(bk, booking_id, notes) ==
    [i \in DOMAIN bk |->
        IF i = booking_id /\ bk[i].status \in {"pending", "approved"}
        THEN [bk[i] EXCEPT !.status = "rejected", !.approval_notes = notes]
        ELSE bk[i]]

\* UPDATE bookings SET status = 'rejected', approval_notes = ?
\*   WHERE booking_id = ? AND status = 'pending'
RejectUpdate(bk, booking_id, notes) ==
    [i \in DOMAIN bk |->
        IF i = booking_id /\ bk[i].status = "pending"
        THEN [bk[i] EXCEPT !.status = "rejected", !.approval_notes = notes]
        ELSE bk[i]]

\* UPDATE bookings SET status = 'cancelled' WHERE booking_id = ?
CancelUpdate(bk, booking_id) ==
    [i \in DOMAIN bk |->
        IF i = booking_id THEN [bk[i] EXCEPT !.status = "cancelled"] ELSE bk[i]]

\* Variant of CompleteUpdate guarded by status = 'approved'.
CompleteUpdate_from_approved(bk, booking_id) ==
    [i \in DOMAIN bk |->
        IF i = booking_id /\ bk[i].status = "approved"
        THEN [bk[i] EXCEPT !.status = "completed"]
        ELSE bk[i]]

\* UPDATE bookings SET status = 'completed' WHERE booking_id = ?
CompleteUpdate(bk, booking_id) ==
    [i \in DOMAIN bk |->
        IF i = booking_id THEN [bk[i] EXCEPT !.status = "completed"] ELSE bk[i]]

\* INSERT INTO admin_logs (admin_id, action, target_table, details)
LogRow(admin_id, verb, booking_id) ==
    [admin_id |-> admin_id, action |-> <<verb, booking_id>>, target_table |-> "bookings"]

\* --------------------------------------------------- outcome of a call
\* What the latest DAO call gave back: the error it raised ("none" when it
\* returned) and, for create_booking, the id of the row it returned
\* (cursor.lastrowid; 0 otherwise).
Returned(booking_id) == [raised |-> "none", booking_id |-> booking_id]

Raised(error) == [raised |-> error, booking_id |-> 0]

\* ------------------------------------------- record of the latest call
\* The operation and its arguments, and the status the addressed row had
\* before the call ("none" when there is no such row or it is not recorded).
NoCall ==
    [op |-> "init", booking_id |-> 0, resource_id |-> 0, start |-> 0, end |-> 0,
     requires_approval |-> FALSE, notes |-> NoNotes, before |-> "none"]

CreateCall(resource_id, start_value, end_value, requires_approval) ==
    [NoCall EXCEPT !.op = "create_booking", !.resource_id = resource_id,
                   !.start = start_value, !.end = end_value,
                   !.requires_approval = requires_approval]

StatusOf(bk, booking_id) ==
    IF booking_id \in DOMAIN bk THEN bk[booking_id].status ELSE "none"

IdleReq == [pc |-> "idle", resource_id |-> 0, requester_id |-> 0, start |-> 0,
            end |-> 0, requires_approval |-> FALSE, notes |-> NoNotes]

\* ---------------------------------------------------------------- Init
Init ==
    /\ bookings = <<>>
    /\ admin_logs = <<>>
    /\ ret = Returned(0)
    /\ last = NoCall
    /\ req = [w \in Workers |-> IdleReq]
    /\ threads = <<>>
    /\ messages = <<>>
    /\ clock = 0

\* ------------------------------------------------- the DAO operations

\* create_booking run without interleaving: has_conflict, then the INSERT
\* and the read-back of the new row.  The table holds at most MaxBookings
\* rows: a call that would add one more is not taken.
create_booking(resource_id, requester_id, start_value, end_value, requires_approval, notes) ==
    /\ IF has_conflict(bookings, resource_id, start_value, end_value, 0)
       THEN /\ bookings' = bookings
            /\ ret' = Raised("ValueError")
       ELSE /\ Len(bookings) < MaxBookings
            /\ bookings' = Append(bookings,
                   NewBooking(resource_id, requester_id, start_value, end_value,
                              requires_approval, notes))
            /\ ret' = Returned(Len(bookings) + 1)
    /\ UNCHANGED admin_logs

approve_booking(booking_id, approver_id, notes) ==
    /\ bookings' = ApproveUpdate(bookings, booking_id, notes)
    /\ admin_logs' = Append(admin_logs, LogRow(approver_id, "Approved booking", booking_id))
    /\ ret' = Returned(0)

reject_booking(booking_id, approver_id, notes) ==
    /\ bookings' = RejectUpdate(bookings, booking_id, notes)
    /\ admin_logs' = Append(admin_logs, LogRow(approver_id, "Rejected booking", booking_id))
    /\ ret' = Returned(0)

cancel_booking(booking_id) ==
    /\ bookings' = CancelUpdate(bookings, booking_id)
    /\ ret' = Returned(0)
    /\ UNCHANGED admin_logs

complete_booking(booking_id) ==
    /\ bookings' = CompleteUpdate(bookings, booking_id)
    /\ ret' = Returned(0)
    /\ UNCHANGED admin_logs

\* Ids a caller may pass: every stored id and one that is not stored.
BookingIds == 1..(Len(bookings) + 1)

\* Bookings awaiting a decision (list_pending_approvals).
Pending == {i \in DOMAIN bookings : bookings[i].status = "pending"}

\* ------------------------------------------------ Spec: the booking table
\* Sequential calls of the five operations as the request handlers make
\* them: start < end (bookings.py:59), approve and reject offered for the
\* bookings listed as pending (bookings.py:97-100), cancel and complete for
\* any stored booking.

\* The create requests drawn: every slot of resource 1, and resource 2 for
\* the whole range of Times.
CreateInputs ==
    {<<r, s, e>> \in Resources \X Times \X Times :
        s < e /\ (r = 2 => (s = 0 /\ e = MaxTime))}

\* A refused call raises at line 46, before requires_approval is read at
\* line 47: both values are drawn only for a call that gets to the INSERT.
DoCreate ==
    \E in \in CreateInputs, u \in Requesters, ra \in BOOLEAN :
        /\ has_conflict(bookings, in[1], in[2], in[3], 0) => ~ra
        /\ create_booking(in[1], u, in[2], in[3], ra, NoNotes)
        /\ last' = CreateCall(in[1], in[2], in[3], ra)
        /\ UNCHANGED <<req, threads, messages, clock>>

DoApprove ==
    /\ Len(admin_logs) < MaxApprovals
    /\ \E id \in Pending, a \in Approvers :
        /\ approve_booking(id, a, NoNotes)
        /\ last' = [NoCall EXCEPT !.op = "approve_booking"]
        /\ UNCHANGED <<req, threads, messages, clock>>

DoReject ==
    /\ Len(admin_logs) < MaxApprovals
    /\ \E id \in Pending, a \in Approvers :
        /\ reject_booking(id, a, NoNotes)
        /\ last' = [NoCall EXCEPT !.op = "reject_booking"]
        /\ UNCHANGED <<req, threads, messages, clock>>

DoCancel ==
    \E id \in DOMAIN bookings :
        /\ cancel_booking(id)
        /\ last' = [NoCall EXCEPT !.op = "cancel_booking"]
        /\ UNCHANGED <<req, threads, messages, clock>>

DoComplete ==
    \E id \in DOMAIN bookings :
        /\ complete_booking(id)
        /\ last' = [NoCall EXCEPT !.op = "complete_booking"]
        /\ UNCHANGED <<req, threads, messages, clock>>

Next == DoCreate \/ DoApprove \/ DoReject \/ DoCancel \/ DoComplete

Spec == Init /\ [][Next]_vars

\* ------------------------------------- SpecLifecycle: status transitions
\* The DAO operations called with every id (stored or not) and every note,
\* on at most MaxLcBookings bookings of one fixed slot.
LcCreate ==
    /\ Len(bookings) < MaxLcBookings
    /\ \E r \in Resources, u \in Requesters, ra \in BOOLEAN :
        /\ create_booking(r, u, 0, 1, ra, NoNotes)
        /\ last' = CreateCall(r, 0, 1, ra)
        /\ UNCHANGED <<req, threads, messages, clock>>

LcApprove ==
    /\ Len(admin_logs) < MaxLog
    /\ \E id \in BookingIds, a \in Approvers, n \in Notes :
        /\ approve_booking(id, a, n)
        /\ last' = [NoCall EXCEPT !.op = "approve_booking", !.booking_id = id,
                       !.notes = n, !.before = StatusOf(bookings, id)]
        /\ UNCHANGED <<req, threads, messages, clock>>

LcReject ==
    /\ Len(admin_logs) < MaxLog
    /\ \E id \in BookingIds, a \in Approvers, n \in Notes :
        /\ reject_booking(id, a, n)
        /\ last' = [NoCall EXCEPT !.op = "reject_booking", !.booking_id = id,
                       !.notes = n, !.before = StatusOf(bookings, id)]
        /\ UNCHANGED <<req, threads, messages, clock>>

LcCancel ==
    \E id \in BookingIds :
        /\ cancel_booking(id)
        /\ last' = [NoCall EXCEPT !.op = "cancel_booking", !.booking_id = id,
                       !.before = StatusOf(bookings, id)]
        /\ UNCHANGED <<req, threads, messages, clock>>

LcComplete ==
    \E id \in BookingIds :
        /\ complete_booking(id)
        /\ last' = [NoCall EXCEPT !.op = "complete_booking", !.booking_id = id,
                       !.before = StatusOf(bookings, id)]
        /\ UNCHANGED <<req, threads, messages, clock>>

NextLifecycle == LcCreate \/ LcApprove \/ LcReject \/ LcCancel \/ LcComplete

SpecLifecycle == Init /\ [][NextLifecycle]_vars

\* ------------------------------- SpecRace: concurrent create_booking
\* Each request has its own connection (db.py:30-36) and execute() commits
\* every statement on its own (db.py:47-52), so the SELECT of has_conflict
\* and the INSERT of one request are two steps that other requests'
\* statements may come between.
Inserting == {w \in Workers : req[w].pc = "insert"}

\* Lines 42-46: the conflict check of request w; it raises or goes on.
RaceCheck(w) ==
    \E r \in Resources, u \in Requesters, s \in Times, e \in Times, ra \in BOOLEAN :
        /\ s < e
        /\ req[w].pc = "idle"
        /\ Len(bookings) + Cardinality(Inserting) < MaxBookings
        /\ IF has_conflict(bookings, r, s, e, 0)
           THEN /\ ret' = Raised("ValueError")
                /\ last' = CreateCall(r, s, e, ra)
                /\ req' = req
           ELSE /\ req' = [req EXCEPT ![w] =
                               [pc |-> "insert", resource_id |-> r, requester_id |-> u,
                                start |-> s, end |-> e, requires_approval |-> ra,
                                notes |-> NoNotes]]
                /\ UNCHANGED <<ret, last>>
        /\ UNCHANGED <<bookings, admin_logs, threads, messages, clock>>

\* Lines 47-65: the INSERT of request w and the read-back of its row.
RaceInsert(w) ==
    /\ req[w].pc = "insert"
    /\ bookings' = Append(bookings,
           NewBooking(req[w].resource_id, req[w].requester_id, req[w].start,
                      req[w].end, req[w].requires_approval, req[w].notes))
    /\ ret' = Returned(Len(bookings) + 1)
    /\ last' = CreateCall(req[w].resource_id, req[w].start, req[w].end,
                          req[w].requires_approval)
    /\ req' = [req EXCEPT ![w] = IdleReq]
    /\ UNCHANGED <<admin_logs, threads, messages, clock>>

NextRace == \E w \in Workers : RaceCheck(w) \/ RaceInsert(w)

SpecRace == Init /\ [][NextRace]_vars

\* ------------------- SpecDecide: concurrent approve_booking / reject_booking
\* Two requests decide on bookings at the same time.  The UPDATE and the
\* audit INSERT of one call are two statements, each committed by execute()
\* (db.py:47-52), so the other request's statements may come between them.
\* req[w] keeps, besides the arguments of the call in flight, whether its
\* UPDATE found the row pending (matched) and whether a call of the other
\* kind, still in flight, had already decided the same booking (rival).
Logging == {w \in Workers : req[w].pc = "log"}

DecideOps == {"approve_booking", "reject_booking"}

DcCreate ==
    /\ Len(bookings) < MaxLcBookings
    /\ \E u \in Requesters :
        /\ create_booking(1, u, 0, 1, TRUE, NoNotes)
        /\ last' = [op |-> "create_booking", booking_id |-> Len(bookings) + 1]
    /\ UNCHANGED <<req, threads, messages, clock>>

\* Lines 99-109 / 117-127: the UPDATE of request w.
DcUpdate(w) ==
    \E op \in DecideOps, id \in DOMAIN bookings, a \in Approvers, n \in Notes :
        /\ req[w].pc = "idle"
        /\ Len(admin_logs) + Cardinality(Logging) < MaxLog
        /\ bookings' = (IF op = "approve_booking"
                        THEN ApproveUpdate(bookings, id, n)
                        ELSE RejectUpdate(bookings, id, n))
        /\ req' = [req EXCEPT ![w] =
                       [pc |-> "log", op |-> op, booking_id |-> id, approver_id |-> a,
                        notes |-> n,
                        matched |-> bookings[id].status = "pending",
                        rival |-> \E v \in Logging :
                                     /\ req[v].booking_id = id
                                     /\ req[v].op # op
                                     /\ req[v].matched]]
        /\ last' = [op |-> op, booking_id |-> id]
        /\ UNCHANGED <<admin_logs, ret, threads, messages, clock>>

\* Lines 110 / 128: the audit INSERT of request w, and its return.
DcLog(w) ==
    /\ req[w].pc = "log"
    /\ admin_logs' = Append(admin_logs,
           LogRow(req[w].approver_id,
                  IF req[w].op = "approve_booking"
                  THEN "Approved booking" ELSE "Rejected booking",
                  req[w].booking_id))
    /\ ret' = Returned(0)
    /\ req' = [req EXCEPT ![w] = IdleReq]
    /\ last' = [op |-> "log_admin_action", booking_id |-> req[w].booking_id]
    /\ UNCHANGED <<bookings, threads, messages, clock>>

NextDecide == DcCreate \/ \E w \in Workers : DcUpdate(w) \/ DcLog(w)

SpecDecide == Init /\ [][NextDecide]_vars

\* ------------------------- SpecEngine: create_booking without a handler
\* create_booking as the tests and the seed script call it
\* (test_dal.py:46, seed.py): the start < end test of the create handler
\* (bookings.py:59) is not in front of it, so any two datetimes arrive.
EngCreate ==
    \E r \in Resources, u \in Requesters, s \in Times, e \in Times, ra \in BOOLEAN :
        /\ create_booking(r, u, s, e, ra, NoNotes)
        /\ last' = CreateCall(r, s, e, ra)
        /\ UNCHANGED <<req, threads, messages, clock>>

NextEngine == EngCreate

SpecEngine == Init /\ [][NextEngine]_vars

\* ------------------------------------------- the booking request handlers
\* abort(code): the handler raises the HTTP error and writes nothing.
Abort(code) ==
    /\ ret' = Raised(code)
    /\ UNCHANGED <<bookings, admin_logs>>

\* Variant of _ensure_owner_or_admin that lets every staff member through.
ensure_owner_or_admin_any_staff(caller, resource_owner_id) ==
    caller = resource_owner_id \/ is_admin(caller) \/ role[caller] = "staff"

\* _ensure_owner_or_admin: TRUE when it returns, FALSE when it aborts 403.
ensure_owner_or_admin(caller, resource_owner_id) ==
    ~(caller # resource_owner_id /\ ~is_admin(caller))

\* The test of the cancel handler (bookings.py:157).
may_cancel(caller, booking) ==
    ~(booking.requester_id # caller /\ ~is_admin(caller))

\* POST /bookings/<id>/approve
approve(caller, booking_id, notes) ==
    IF booking_id \notin DOMAIN bookings THEN Abort("404")
    ELSE IF ~ensure_owner_or_admin(caller, owner_id[bookings[booking_id].resource_id])
         THEN Abort("403")
         ELSE approve_booking(booking_id, caller, notes)

\* POST /bookings/<id>/reject
reject(caller, booking_id, notes) ==
    IF booking_id \notin DOMAIN bookings THEN Abort("404")
    ELSE IF ~ensure_owner_or_admin(caller, owner_id[bookings[booking_id].resource_id])
         THEN Abort("403")
         ELSE reject_booking(booking_id, caller, notes)

\* POST /bookings/<id>/cancel
cancel(caller, booking_id) ==
    IF booking_id \notin DOMAIN bookings THEN Abort("404")
    ELSE IF ~may_cancel(caller, bookings[booking_id])
         THEN Abort("403")
         ELSE cancel_booking(booking_id)

\* POST /bookings/<id>/complete
complete(caller, booking_id) ==
    IF booking_id \notin DOMAIN bookings THEN Abort("404")
    ELSE IF ~ensure_owner_or_admin(caller, owner_id[bookings[booking_id].resource_id])
         THEN Abort("403")
         ELSE complete_booking(booking_id)

\* role_required("admin") (auth.py:59): TRUE when the view is entered.
role_required_admin(caller) ==
    ~(role[caller] \notin {"admin"} /\ ~is_admin(caller))

\* POST /admin/bookings/<id>/approve
admin_approve_booking(caller, booking_id, notes) ==
    IF ~role_required_admin(caller) THEN Abort("403")
    ELSE approve_booking(booking_id, caller, notes)

\* POST /admin/bookings/<id>/reject
admin_reject_booking(caller, booking_id, notes) ==
    IF ~role_required_admin(caller) THEN Abort("403")
    ELSE reject_booking(booking_id, caller, notes)

\* --------------------------- SpecHandlers: status changes by any caller
\* Every user sends the status-changing requests: cancel and complete for
\* every id, approve and reject for the pending bookings (the ones the
\* approval pages list) and for an id that is not stored.  Bookings are made
\* through the create handler by the booking user, for one slot.
HandlerCall(op, caller, booking_id) ==
    [op |-> op, caller |-> caller, booking_id |-> booking_id]

HdCreate ==
    /\ Len(bookings) < MaxLcBookings
    /\ \E r \in Resources, u \in Requesters, ra \in BOOLEAN :
        /\ create_booking(r, u, 0, 1, ra, IF ra THEN NoNotes ELSE "Auto-approved")
        /\ last' = HandlerCall("create", u, ret'.booking_id)
        /\ UNCHANGED <<req, threads, messages, clock>>

HdApprove ==
    \E caller \in Users, id \in Pending \cup {Len(bookings) + 1} :
        /\ approve(caller, id, NoNotes)
        /\ Len(admin_logs') <= MaxApprovals
        /\ last' = HandlerCall("approve", caller, id)
        /\ UNCHANGED <<req, threads, messages, clock>>

HdReject ==
    \E caller \in Users, id \in Pending \cup {Len(bookings) + 1} :
        /\ reject(caller, id, NoNotes)
        /\ Len(admin_logs') <= MaxApprovals
        /\ last' = HandlerCall("reject", caller, id)
        /\ UNCHANGED <<req, threads, messages, clock>>

HdCancel ==
    \E caller \in Users, id \in BookingIds :
        /\ cancel(caller, id)
        /\ last' = HandlerCall("cancel", caller, id)
        /\ UNCHANGED <<req, threads, messages, clock>>

HdComplete ==
    \E caller \in Users, id \in BookingIds :
        /\ complete(caller, id)
        /\ last' = HandlerCall("complete", caller, id)
        /\ UNCHANGED <<req, threads, messages, clock>>

HdAdminApprove ==
    \E caller \in Users, id \in Pending \cup {Len(bookings) + 1} :
        /\ admin_approve_booking(caller, id, NoNotes)
        /\ Len(admin_logs') <= MaxApprovals
        /\ last' = HandlerCall("admin_approve_booking", caller, id)
        /\ UNCHANGED <<req, threads, messages, clock>>

HdAdminReject ==
    \E caller \in Users, id \in Pending \cup {Len(bookings) + 1} :
        /\ admin_reject_booking(caller, id, NoNotes)
        /\ Len(admin_logs') <= MaxApprovals
        /\ last' = HandlerCall("admin_reject_booking", caller, id)
        /\ UNCHANGED <<req, threads, messages, clock>>

NextHandlers ==
    \/ HdCreate \/ HdApprove \/ HdReject \/ HdCancel \/ HdComplete
    \/ HdAdminApprove \/ HdAdminReject

SpecHandlers == Init /\ [][NextHandlers]_vars

\* ----------------------- SpecAudit: the audit insert of approve / reject
\* approve_booking when the INSERT of _log_admin_action raises (admin_logs
\* missing or locked: sqlite3.OperationalError out of db.execute,
\* db.py:50).  The UPDATE before it is committed (db.py:51) and nothing
\* catches the error (bookings_dao.py:110, 253-263).
approve_booking_log_raises(booking_id, approver_id, notes) ==
    /\ bookings' = ApproveUpdate(bookings, booking_id, notes)
    /\ admin_logs' = admin_logs
    /\ ret' = Raised("OperationalError")

\* reject_booking when the INSERT of _log_admin_action raises.
reject_booking_log_raises(booking_id, approver_id, notes) ==
    /\ bookings' = RejectUpdate(bookings, booking_id, notes)
    /\ admin_logs' = admin_logs
    /\ ret' = Raised("OperationalError")

AuditCall(op, booking_id, notes, log_failed) ==
    [op |-> op, booking_id |-> booking_id, notes |-> notes, log_failed |-> log_failed]

AuCreate ==
    /\ Len(bookings) < MaxLcBookings
    /\ \E r \in Resources, u \in Requesters, ra \in BOOLEAN :
        /\ create_booking(r, u, 0, 1, ra, NoNotes)
        /\ last' = AuditCall("create_booking", ret'.booking_id, NoNotes, FALSE)
        /\ UNCHANGED <<req, threads, messages, clock>>

AuApprove ==
    /\ Len(admin_logs) < MaxLog
    /\ \E id \in BookingIds, a \in Approvers, n \in Notes, log_failed \in BOOLEAN :
        /\ IF log_failed
           THEN approve_booking_log_raises(id, a, n)
           ELSE approve_booking(id, a, n)
        /\ last' = AuditCall("approve_booking", id, n, log_failed)
        /\ UNCHANGED <<req, threads, messages, clock>>

AuReject ==
    /\ Len(admin_logs) < MaxLog
    /\ \E id \in BookingIds, a \in Approvers, n \in Notes, log_failed \in BOOLEAN :
        /\ IF log_failed
           THEN reject_booking_log_raises(id, a, n)
           ELSE reject_booking(id, a, n)
        /\ last' = AuditCall("reject_booking", id, n, log_failed)
        /\ UNCHANGED <<req, threads, messages, clock>>

NextAudit == AuCreate \/ AuApprove \/ AuReject

SpecAudit == Init /\ [][NextAudit]_vars

\* ================================================== the thread registry

\* ----------------------------------------------------- timestamp texts
\* messages.timestamp is filled by the store when the row is inserted
\* (post_message passes none) with the text 'YYYY-MM-DD HH:MM:SS';
\* _row_to_message turns the blank into 'T' before parsing it
\* (messages_dao.py:36) and the polling endpoint sends isoformat() texts,
\* 'YYYY-MM-DDTHH:MM:SS' (messaging.py:186).  SQLite compares and sorts
\* the column as text.  A text is modelled by its date part, its separator
\* and its time part; an instant is a number of ticks, TicksPerDate of them
\* to a date.
Separators == {" ", "T"}

SepRank(sep) == IF sep = " " THEN 0 ELSE 1

Instants == 0..MaxClock

\* The text the store writes for the instant t: CURRENT_TIMESTAMP.
CurrentTimestamp(t) ==
    [date |-> t \div TicksPerDate, sep |-> " ", time |-> t % TicksPerDate]

\* datetime.isoformat() of the instant t.
isoformat(t) ==
    [date |-> t \div TicksPerDate, sep |-> "T", time |-> t % TicksPerDate]

\* datetime.fromisoformat(text.replace(" ", "T")): the instant a text names.
fromisoformat(text) == text.date * TicksPerDate + text.time

\* Text comparison a < b: character by character, so by date part, then
\* separator (blank sorts before 'T'), then time part.
TextLess(a, b) ==
    \/ a.date < b.date
    \/ (a.date = b.date /\ SepRank(a.sep) < SepRank(b.sep))
    \/ (a.date = b.date /\ a.sep = b.sep /\ a.time < b.time)

\* ------------------------------------------------------- rows and reads
\* context_id 0 stands for NULL / None (falsy in the code either way).
ThreadRow(context_type, context_id, created_by) ==
    [context_type |-> context_type, context_id |-> context_id, created_by |-> created_by]

MessageRow(thread_id, sender_id, receiver_id, timestamp) ==
    [thread_id |-> thread_id, sender_id |-> sender_id, receiver_id |-> receiver_id,
     timestamp |-> timestamp]

\* All ways to list the ids in S one after the other.
Orderings(S) ==
    {f \in [1..Cardinality(S) -> S] : \A i, j \in DOMAIN f : i # j => f[i] # f[j]}

\* f lists rows of msgs in ascending text order of their timestamps.
Ascending(msgs, f) ==
    \A i, j \in DOMAIN f : i < j => ~TextLess(msgs[f[j]].timestamp, msgs[f[i]].timestamp)

\* Variant of get_messages without ORDER BY timestamp.
get_messages_unordered(msgs, thread_id) ==
    Orderings({i \in DOMAIN msgs : msgs[i].thread_id = thread_id})

\* SELECT * FROM messages WHERE thread_id = ? ORDER BY timestamp ASC: the
\* set of results the query can give (the order of rows with equal
\* timestamps is left to the store); a result is a sequence of message ids.
get_messages(msgs, thread_id) ==
    {f \in Orderings({i \in DOMAIN msgs : msgs[i].thread_id = thread_id}) :
        Ascending(msgs, f)}

\* SELECT * FROM messages WHERE thread_id = ? AND timestamp > ?
\*   ORDER BY timestamp ASC
get_messages_since(msgs, thread_id, timestamp) ==
    {f \in Orderings({i \in DOMAIN msgs :
                         /\ msgs[i].thread_id = thread_id
                         /\ TextLess(timestamp, msgs[i].timestamp)}) :
        Ascending(msgs, f)}

\* What a read gave back: a sequence of message ids.
Rows(rows) == [raised |-> "none", booking_id |-> 0, rows |-> rows]

\* ------------------------------------------------- the DAO operations
\* INSERT INTO threads; returns the new thread (its id in ret.booking_id's
\* place: cursor.lastrowid).
create_thread(context_type, context_id, created_by) ==
    /\ Len(threads) < MaxThreads
    /\ threads' = Append(threads, ThreadRow(context_type, context_id, created_by))
    /\ ret' = Returned(Len(threads) + 1)
    /\ UNCHANGED messages

\* INSERT INTO messages; the store stamps the row with its clock.
post_message(thread_id, sender_id, receiver_id) ==
    /\ Len(messages) < MaxMessages
    /\ messages' = Append(messages,
           MessageRow(thread_id, sender_id, receiver_id, CurrentTimestamp(clock)))
    /\ ret' = Returned(Len(messages) + 1)
    /\ UNCHANGED threads

\* ------------------------------------------- the messaging request handlers
\* abort(code) in a messaging handler: nothing is written.
MsgAbort(code) ==
    /\ ret' = Raised(code)
    /\ UNCHANGED <<threads, messages>>

\* Senders and receivers of the messages of a thread (messaging.py:41-42).
Correspondents(thread_id) ==
    {messages[i].sender_id : i \in {k \in DOMAIN messages : messages[k].thread_id = thread_id}}
    \cup
    {messages[i].receiver_id : i \in {k \in DOMAIN messages : messages[k].thread_id = thread_id}}

\* Variant of thread_participants that leaves the booking's requester out.
thread_participants_no_requester(thread_id) ==
    LET thread == threads[thread_id]
        participants == Correspondents(thread_id)
    IN  IF thread.context_type = "resource" /\ thread.context_id # 0
        THEN IF thread.context_id \in Resources
             THEN participants \cup {owner_id[thread.context_id]}
             ELSE participants
        ELSE IF thread.context_type = "booking" /\ thread.context_id # 0
             THEN IF thread.context_id \in DOMAIN bookings
                  THEN participants
                       \cup {owner_id[bookings[thread.context_id].resource_id]}
                  ELSE participants
             ELSE participants

\* _thread_participants for a stored thread (the 404 for a missing thread is
\* raised by the callers' own get_thread first).  get_resource_by_id finds
\* exactly the ids in Resources.
thread_participants(thread_id) ==
    LET thread == threads[thread_id]
        participants == Correspondents(thread_id)
    IN  IF thread.context_type = "resource" /\ thread.context_id # 0
        THEN IF thread.context_id \in Resources
             THEN participants \cup {owner_id[thread.context_id]}
             ELSE participants
        ELSE IF thread.context_type = "booking" /\ thread.context_id # 0
             THEN IF thread.context_id \in DOMAIN bookings
                  THEN participants
                       \cup {bookings[thread.context_id].requester_id}
                       \cup {owner_id[bookings[thread.context_id].resource_id]}
                  ELSE participants
             ELSE participants

\* Variant of ensure_thread_access that lets every staff member in.
ensure_thread_access_any_staff(caller, thread_id) ==
    IF thread_id \notin DOMAIN threads THEN "404"
    ELSE IF caller \notin thread_participants(thread_id) /\ ~is_admin(caller)
              /\ role[caller] # "staff"
         THEN "403"
         ELSE "ok"

\* _ensure_thread_access: the error it aborts with, or "ok".
ensure_thread_access(caller, thread_id) ==
    IF thread_id \notin DOMAIN threads THEN "404"
    ELSE IF caller \notin thread_participants(thread_id) /\ ~is_admin(caller)
         THEN "403"
         ELSE "ok"

\* What the thread page shows: the thread, its messages and participants.
Page(thread_id, rows, participants) ==
    [raised |-> "none", booking_id |-> 0, thread_id |-> thread_id, rows |-> rows,
     participants |-> participants]

\* GET or POST /messages/<thread_id>; submit is form.validate_on_submit().
thread(caller, thread_id, submit) ==
    IF ensure_thread_access(caller, thread_id) # "ok"
    THEN MsgAbort(ensure_thread_access(caller, thread_id))
    ELSE \E rows \in get_messages(messages, thread_id) :
            IF submit
            THEN IF rows = <<>>
                 THEN MsgAbort("400")
                 ELSE LET last_message == messages[rows[Len(rows)]]
                          recipient == IF last_message.sender_id = caller
                                       THEN last_message.receiver_id
                                       ELSE last_message.sender_id
                      IN  post_message(thread_id, caller, recipient)
            ELSE /\ ret' = Page(thread_id, rows, thread_participants(thread_id))
                 /\ UNCHANGED <<threads, messages>>

\* The ts of a poll that carries none (request.args.get gives None).
NoTs == [date |-> 0, sep |-> "none", time |-> 0]

\* GET /messages/<thread_id>/since?ts=...
thread_since(caller, thread_id, since) ==
    IF ensure_thread_access(caller, thread_id) # "ok"
    THEN MsgAbort(ensure_thread_access(caller, thread_id))
    ELSE IF since = NoTs
         THEN MsgAbort("400")
         ELSE \E rows \in get_messages_since(messages, thread_id, since) :
                 /\ ret' = Rows(rows)
                 /\ UNCHANGED <<threads, messages>>

\* THREAD_CONTEXTS
THREAD_CONTEXTS == {"resource", "booking", "general"}

\* A redirect answered without any write (flash message and 302).
Redirect(flash) == [raised |-> "none", booking_id |-> 0, flash |-> flash]

\* Variant of start_allowed that asks only the receiver of a booking thread
\* to be the requester or the owner.
start_allowed_receiver_only(caller, receiver_id, context_type, context_id) ==
    IF context_type = "resource"
    THEN IF context_id \notin Resources THEN "404"
         ELSE IF receiver_id \notin {owner_id[context_id], caller} THEN "403" ELSE "ok"
    ELSE IF context_type = "booking"
         THEN IF context_id \notin DOMAIN bookings THEN "404"
              ELSE IF receiver_id \notin {bookings[context_id].requester_id,
                                          owner_id[bookings[context_id].resource_id]}
                   THEN "403" ELSE "ok"
         ELSE IF ~is_admin(caller) THEN "403" ELSE "ok"

\* Variant of start_allowed that accepts any receiver on a resource thread.
start_allowed_any_receiver(caller, receiver_id, context_type, context_id) ==
    IF context_type = "resource"
    THEN IF context_id \notin Resources THEN "404" ELSE "ok"
    ELSE IF context_type = "booking"
         THEN IF context_id \notin DOMAIN bookings THEN "404"
              ELSE IF \/ receiver_id \notin {bookings[context_id].requester_id,
                                             owner_id[bookings[context_id].resource_id]}
                      \/ caller \notin {bookings[context_id].requester_id,
                                        owner_id[bookings[context_id].resource_id]}
                   THEN "403" ELSE "ok"
         ELSE IF ~is_admin(caller) THEN "403" ELSE "ok"

\* The context checks of start (messaging.py:214-232): the error they abort
\* with, or "ok".  context_id 0 is None.
start_allowed(caller, receiver_id, context_type, context_id) ==
    IF context_type = "resource"
    THEN IF context_id \notin Resources THEN "404"
         ELSE IF receiver_id \notin {owner_id[context_id], caller} THEN "403" ELSE "ok"
    ELSE IF context_type = "booking"
         THEN IF context_id \notin DOMAIN bookings THEN "404"
              ELSE IF \/ receiver_id \notin {bookings[context_id].requester_id,
                                             owner_id[bookings[context_id].resource_id]}
                      \/ caller \notin {bookings[context_id].requester_id,
                                        owner_id[bookings[context_id].resource_id]}
                   THEN "403" ELSE "ok"
         ELSE IF ~is_admin(caller) THEN "403" ELSE "ok"

\* Variant of start without the test for a receiver equal to the caller.
start_to_oneself(caller, valid, receiver_id, context_type, context_id) ==
    IF ~valid
    THEN ret' = Redirect("danger") /\ UNCHANGED <<threads, messages>>
    ELSE IF context_type \notin THREAD_CONTEXTS
    THEN MsgAbort("400")
    ELSE IF start_allowed(caller, receiver_id, context_type, context_id) # "ok"
    THEN MsgAbort(start_allowed(caller, receiver_id, context_type, context_id))
    ELSE /\ Len(threads) < MaxThreads
         /\ Len(messages) < MaxMessages
         /\ threads' = Append(threads, ThreadRow(context_type, context_id, caller))
         /\ messages' = Append(messages,
                MessageRow(Len(threads) + 1, caller, receiver_id, CurrentTimestamp(clock)))
         /\ ret' = Returned(Len(threads) + 1)

\* POST /messages/start; valid is form.validate_on_submit().  On success the
\* thread and its first message are inserted and the caller is sent to the
\* new thread.
start(caller, valid, receiver_id, context_type, context_id) ==
    IF ~valid
    THEN ret' = Redirect("danger") /\ UNCHANGED <<threads, messages>>
    ELSE IF context_type \notin THREAD_CONTEXTS
    THEN MsgAbort("400")
    ELSE IF receiver_id = caller
    THEN ret' = Redirect("warning") /\ UNCHANGED <<threads, messages>>
    ELSE IF start_allowed(caller, receiver_id, context_type, context_id) # "ok"
    THEN MsgAbort(start_allowed(caller, receiver_id, context_type, context_id))
    ELSE /\ Len(threads) < MaxThreads
         /\ Len(messages) < MaxMessages
         /\ threads' = Append(threads, ThreadRow(context_type, context_id, caller))
         /\ messages' = Append(messages,
                MessageRow(Len(threads) + 1, caller, receiver_id, CurrentTimestamp(clock)))
         /\ ret' = Returned(Len(threads) + 1)

\* ------------------------------------- specification of the start handler
StartCall(caller, valid, receiver_id, context_type, context_id) ==
    [op |-> "start", caller |-> caller, valid |-> valid, receiver_id |-> receiver_id,
     context_type |-> context_type, context_id |-> context_id]

\* The contexts a start form names: resource 1, a resource that does not
\* exist, the first two booking ids, no context with and without an id, and
\* a context type outside THREAD_CONTEXTS.
StartContexts ==
    {<<"resource", 1>>, <<"resource", 3>>, <<"booking", 1>>, <<"booking", 2>>,
     <<"general", 0>>, <<"general", 1>>, <<"other", 0>>}

Receivers == {1, 2, 3}

StCreateBooking ==
    /\ Len(bookings) < MaxLcBookings
    /\ \E u \in Requesters :
        /\ create_booking(1, u, 0, 1, TRUE, NoNotes)
        /\ last' = [op |-> "create_booking"]
    /\ UNCHANGED <<req, threads, messages, clock>>

StStart ==
    \E caller \in Users, receiver_id \in Receivers, ctx \in StartContexts :
        /\ start(caller, TRUE, receiver_id, ctx[1], ctx[2])
        /\ last' = StartCall(caller, TRUE, receiver_id, ctx[1], ctx[2])
        /\ UNCHANGED <<bookings, admin_logs, req, clock>>

StStartInvalid ==
    /\ start(1, FALSE, 2, "resource", 1)
    /\ last' = StartCall(1, FALSE, 2, "resource", 1)
    /\ UNCHANGED <<bookings, admin_logs, req, clock>>

NextStart == StCreateBooking \/ StStart \/ StStartInvalid

SpecStart == Init /\ [][NextStart]_vars

\* ---------------------------------------- specification of thread access
\* Threads and their first messages are written through the DAO (as the
\* seed script and the tests do); every user then views, answers and polls
\* every thread through the handlers.
AccessCall(op, caller, thread_id) ==
    [op |-> op, caller |-> caller, thread_id |-> thread_id]

\* The contexts a thread is opened on: booking 1, resource 1, no context.
AccessContexts == {<<"booking", 1>>, <<"resource", 1>>, <<"general", 0>>}

\* Sender and receiver of the messages written through the DAO.
AccessPairs == {<<3, 2>>}

AcCreateBooking ==
    /\ Len(bookings) < MaxLcBookings
    /\ \E u \in Requesters :
        /\ create_booking(1, u, 0, 1, TRUE, NoNotes)
        /\ last' = AccessCall("create_booking", u, 0)
    /\ UNCHANGED <<req, threads, messages, clock>>

AcCreateThread ==
    \E ctx \in AccessContexts :
        /\ create_thread(ctx[1], ctx[2], 9)
        /\ last' = AccessCall("create_thread", 9, Len(threads) + 1)
        /\ UNCHANGED <<bookings, admin_logs, req, clock>>

AcPost ==
    \E thread_id \in DOMAIN threads, pair \in AccessPairs :
        /\ post_message(thread_id, pair[1], pair[2])
        /\ last' = AccessCall("post_message", pair[1], thread_id)
        /\ UNCHANGED <<bookings, admin_logs, req, clock>>

AcThread ==
    \E caller \in Users, thread_id \in 1..(Len(threads) + 1), submit \in BOOLEAN :
        /\ thread(caller, thread_id, submit)
        /\ last' = AccessCall(IF submit THEN "reply" ELSE "thread", caller, thread_id)
        /\ UNCHANGED <<bookings, admin_logs, req, clock>>

AcSince ==
    \E caller \in Users, thread_id \in 1..(Len(threads) + 1),
       since \in {NoTs, CurrentTimestamp(0)} :
        /\ thread_since(caller, thread_id, since)
        /\ last' = AccessCall("thread_since", caller, thread_id)
        /\ UNCHANGED <<bookings, admin_logs, req, clock>>

NextAccess == AcCreateBooking \/ AcCreateThread \/ AcPost \/ AcThread \/ AcSince

SpecAccess == Init /\ [][NextAccess]_vars

\* GET or POST /admin/threads/<thread_id>; submit is
\* form.validate_on_submit().
thread_detail(caller, thread_id, submit) ==
    IF ~role_required_admin(caller) THEN MsgAbort("403")
    ELSE IF thread_id \notin DOMAIN threads THEN MsgAbort("404")
    ELSE \E rows \in get_messages(messages, thread_id) :
            IF submit /\ rows # <<>>
            THEN LET last_message == messages[rows[Len(rows)]]
                     recipient == IF last_message.sender_id # caller
                                  THEN last_message.sender_id
                                  ELSE last_message.receiver_id
                 IN  post_message(thread_id, caller, recipient)
            ELSE /\ ret' = Page(thread_id, rows, Correspondents(thread_id))
                 /\ UNCHANGED <<threads, messages>>

\* ------------------------------------ specification of the conversations
\* Every message is written by a request handler: threads are opened with
\* start, and answered on the thread page and on the admin thread page.
ConversationContexts == {<<"resource", 1>>, <<"booking", 1>>, <<"general", 0>>}

CvCreateBooking ==
    /\ Len(bookings) < MaxLcBookings
    /\ \E u \in Requesters :
        /\ create_booking(1, u, 0, 1, TRUE, NoNotes)
        /\ last' = AccessCall("create_booking", u, 0)
    /\ UNCHANGED <<req, threads, messages, clock>>

CvStart ==
    \E caller \in Users, receiver_id \in Receivers, ctx \in ConversationContexts :
        /\ start(caller, TRUE, receiver_id, ctx[1], ctx[2])
        /\ last' = AccessCall("start", caller, Len(threads) + 1)
        /\ UNCHANGED <<bookings, admin_logs, req, clock>>

CvThread ==
    \E caller \in Users, thread_id \in DOMAIN threads, submit \in BOOLEAN :
        /\ thread(caller, thread_id, submit)
        /\ last' = AccessCall(IF submit THEN "reply" ELSE "thread", caller, thread_id)
        /\ UNCHANGED <<bookings, admin_logs, req, clock>>

CvThreadDetail ==
    \E caller \in Users, thread_id \in DOMAIN threads, submit \in BOOLEAN :
        /\ thread_detail(caller, thread_id, submit)
        /\ last' = AccessCall(IF submit THEN "admin_reply" ELSE "thread_detail",
                              caller, thread_id)
        /\ UNCHANGED <<bookings, admin_logs, req, clock>>

NextConversation == CvCreateBooking \/ CvStart \/ CvThread \/ CvThreadDetail

SpecConversation == Init /\ [][NextConversation]_vars

\* ------------------------------------------------------ thread listings
\* NULL in the last_activity column.
NullActivity == [date |-> 0, sep |-> "null", time |-> 0]

\* MAX(m.timestamp) over a non-empty set of message ids: the greatest text.
MaxTimestamp(msgs, ids) ==
    CHOOSE a \in {msgs[i].timestamp : i \in ids} :
        \A i \in ids : ~TextLess(a, msgs[i].timestamp)

\* One result row of GROUP BY t.thread_id over the joined message ids.
ListRow(msgs, thread_id, ids) ==
    [thread_id |-> thread_id,
     last_activity |-> IF ids = {} THEN NullActivity ELSE MaxTimestamp(msgs, ids),
     message_count |-> Cardinality(ids)]

\* ORDER BY (last_activity IS NULL), last_activity DESC puts row a strictly
\* before row b.
ListedBefore(a, b) ==
    \/ a.last_activity # NullActivity /\ b.last_activity = NullActivity
    \/ /\ a.last_activity # NullActivity
       /\ b.last_activity # NullActivity
       /\ TextLess(b.last_activity, a.last_activity)

\* The orders a query may return a set of rows in.
Listings(rows) ==
    {f \in Orderings(rows) : \A i, j \in DOMAIN f : i < j => ~ListedBefore(f[j], f[i])}

\* Variant of list_threads_for_admin with an inner JOIN.
list_threads_for_admin_inner(thr, msgs) ==
    Listings({ListRow(msgs, t, {i \in DOMAIN msgs : msgs[i].thread_id = t}) :
                 t \in {x \in DOMAIN thr : \E i \in DOMAIN msgs : msgs[i].thread_id = x}})

\* list_threads_for_admin: threads LEFT JOIN messages, grouped by thread.
list_threads_for_admin(thr, msgs) ==
    Listings({ListRow(msgs, t, {i \in DOMAIN msgs : msgs[i].thread_id = t}) :
                 t \in DOMAIN thr})

\* list_threads_for_user: threads JOIN messages WHERE the message is from or
\* to the user, grouped by thread; the aggregates run over the joined rows
\* that passed the WHERE.
list_threads_for_user(thr, msgs, user_id) ==
    LET joined(t) == {i \in DOMAIN msgs :
                        /\ msgs[i].thread_id = t
                        /\ (msgs[i].sender_id = user_id \/ msgs[i].receiver_id = user_id)}
    IN  Listings({ListRow(msgs, t, joined(t)) : t \in {x \in DOMAIN thr : joined(x) # {}}})

\* --------------------------------- specification of the thread listings
\* The two listings are queries: they are applied to every pair of tables
\* that create_thread, post_message and the store's clock can leave behind,
\* up to MaxListThreads threads and MaxListMessages messages.
MaxListThreads == 2
MaxListMessages == 3

\* Sender and receiver of the stored messages.
ListPairs == {<<3, 2>>, <<9, 2>>}

\* The thread tables: threads without context opened by the administrator.
ThreadTables ==
    UNION {[1..n -> {ThreadRow("general", 0, 9)}] : n \in 0..MaxListThreads}

\* The message tables over thread table thr: each message is on a stored
\* thread and no message is stamped earlier than the one stored before it.
MessageTables(thr) ==
    LET rows == {MessageRow(t, pair[1], pair[2], CurrentTimestamp(c)) :
                    t \in DOMAIN thr, pair \in ListPairs, c \in Instants}
    IN  {m \in UNION {[1..n -> rows] : n \in 0..MaxListMessages} :
            \A i, j \in DOMAIN m :
                i < j => fromisoformat(m[i].timestamp) <= fromisoformat(m[j].timestamp)}

InitList ==
    /\ bookings = <<>>
    /\ admin_logs = <<>>
    /\ ret = Returned(0)
    /\ last = NoCall
    /\ req = [w \in Workers |-> IdleReq]
    /\ threads \in ThreadTables
    /\ messages \in MessageTables(threads)
    /\ clock = MaxClock

ListCall(op, user_id) == [op |-> op, user_id |-> user_id]

LsAdmin ==
    \E rows \in list_threads_for_admin(threads, messages) :
        /\ ret' = Rows(rows)
        /\ last' = ListCall("list_threads_for_admin", 9)
        /\ UNCHANGED <<bookings, admin_logs, req, threads, messages, clock>>

LsUser ==
    \E user_id \in {2, 3} :
        \E rows \in list_threads_for_user(threads, messages, user_id) :
            /\ ret' = Rows(rows)
            /\ last' = ListCall("list_threads_for_user", user_id)
            /\ UNCHANGED <<bookings, admin_logs, req, threads, messages, clock>>

NextList == LsAdmin \/ LsUser

SpecList == InitList /\ [][NextList]_vars

\* ------------------------------------- specification of the thread registry
\* The messaging DAO on its own: threads are created, messages are posted
\* while the store's clock advances, and both reads are called with every
\* thread id and, for get_messages_since, every timestamp text of either
\* format.
RegistryCall(op, thread_id, timestamp) ==
    [op |-> op, thread_id |-> thread_id, timestamp |-> timestamp]

\* The contexts create_thread is called with: none, and a booking id that
\* is not stored.
RegistryContexts == {<<"general", 0>>, <<"booking", 1>>}

\* The timestamp texts a caller of get_messages_since holds: what the store
\* keeps and what the polling endpoint emits.
SinceTexts == {CurrentTimestamp(t) : t \in Instants} \cup {isoformat(t) : t \in Instants}

\* The store's clock advances.
Tick ==
    /\ clock < MaxClock
    /\ clock' = clock + 1
    /\ last' = RegistryCall("tick", 0, NoTs)
    /\ UNCHANGED <<bookings, admin_logs, ret, req, threads, messages>>

RgCreateThread ==
    \E ctx \in RegistryContexts :
        /\ create_thread(ctx[1], ctx[2], 9)
        /\ last' = RegistryCall("create_thread", Len(threads) + 1, NoTs)
        /\ UNCHANGED <<bookings, admin_logs, req, clock>>

RgPost ==
    \E thread_id \in DOMAIN threads :
        /\ post_message(thread_id, 3, 2)
        /\ last' = RegistryCall("post_message", thread_id, NoTs)
        /\ UNCHANGED <<bookings, admin_logs, req, clock>>

RgGetMessages ==
    \E thread_id \in DOMAIN threads :
        \E rows \in get_messages(messages, thread_id) :
            /\ ret' = Rows(rows)
            /\ last' = RegistryCall("get_messages", thread_id, NoTs)
            /\ UNCHANGED <<bookings, admin_logs, req, threads, messages, clock>>

RgGetMessagesSince ==
    \E thread_id \in DOMAIN threads, timestamp \in SinceTexts :
        \E rows \in get_messages_since(messages, thread_id, timestamp) :
            /\ ret' = Rows(rows)
            /\ last' = RegistryCall("get_messages_since", thread_id, timestamp)
            /\ UNCHANGED <<bookings, admin_logs, req, threads, messages, clock>>

NextRegistry == Tick \/ RgCreateThread \/ RgPost \/ RgGetMessages \/ RgGetMessagesSince

SpecRegistry == Init /\ [][NextRegistry]_vars

\* ------------------------------------------ specification of polling
\* A browser follows thread 1: it loads the thread page once and then polls
\* /messages/1/since with the timestamp of the last message it has been
\* given, while messages are posted and the store's clock advances.
\* req["w1"] is the state of that client: the timestamp text it holds (ts,
\* as stored), the ids of the messages it has been given (seen) and whether
\* a poll has given it a message again (again).
Client == "w1"

PollThread == 1

Following == req[Client].pc = "polling"

\* The client loads the thread page (get_messages) and keeps the timestamp
\* of the last message on it.
PlOpen ==
    /\ req[Client].pc = "idle"
    /\ PollThread \in DOMAIN threads
    /\ \E rows \in get_messages(messages, PollThread) :
        /\ rows # <<>>
        /\ req' = [req EXCEPT ![Client] =
                       [pc |-> "polling",
                        ts |-> messages[rows[Len(rows)]].timestamp,
                        seen |-> {rows[k] : k \in DOMAIN rows},
                        again |-> FALSE]]
        /\ ret' = Rows(rows)
    /\ last' = RegistryCall("get_messages", PollThread, NoTs)
    /\ UNCHANGED <<bookings, admin_logs, threads, messages, clock>>

\* One poll: get_messages_since(thread, ts); the client keeps the timestamp
\* of the last row it is given.
PlPoll ==
    /\ Following
    /\ \E rows \in get_messages_since(messages, PollThread, req[Client].ts) :
        /\ req' = [req EXCEPT ![Client] =
                       [pc |-> "polling",
                        ts |-> IF rows = <<>> THEN req[Client].ts
                               ELSE messages[rows[Len(rows)]].timestamp,
                        seen |-> req[Client].seen \cup {rows[k] : k \in DOMAIN rows},
                        again |-> \/ req[Client].again
                                  \/ \E k \in DOMAIN rows : rows[k] \in req[Client].seen]]
        /\ ret' = Rows(rows)
    /\ last' = RegistryCall("get_messages_since", PollThread, req[Client].ts)
    /\ UNCHANGED <<bookings, admin_logs, threads, messages, clock>>

NextPoll == Tick \/ RgCreateThread \/ RgPost \/ PlOpen \/ PlPoll

\* The client keeps polling.
SpecPoll == Init /\ [][NextPoll]_vars /\ WF_vars(PlPoll)

\* ------------------------- specification of the unprovisioned deployment
\* A deployment whose database holds the booking tables and not the
\* messaging tables: every statement on threads or messages fails with
\* sqlite3.OperationalError ("no such table"), which each DAO function
\* turns into MessagingSchemaError.  The tables stay absent: only the
\* init-db command creates them.
Missing == "no such table"

SchemaAbsent == threads = Missing \/ messages = Missing

InitSchema ==
    /\ bookings = <<>>
    /\ admin_logs = <<>>
    /\ ret = Returned(0)
    /\ last = NoCall
    /\ req = [w \in Workers |-> IdleReq]
    /\ threads = Missing
    /\ messages = Missing
    /\ clock = 0

\* A page rendered after flash(str(exc), "warning").
Flashed(rows) == [raised |-> "none", booking_id |-> 0, rows |-> rows, flash |-> "warning"]

\* GET /messages/: the caller's threads, or no thread and the warning.
inbox(caller) ==
    /\ IF SchemaAbsent
       THEN ret' = Flashed(<<>>)
       ELSE \E rows \in list_threads_for_user(threads, messages, caller) : ret' = Rows(rows)
    /\ UNCHANGED <<threads, messages>>

\* GET /admin/: the count of threads falls back to 0 and the recent threads
\* to none, with the warning.
dashboard(caller) ==
    IF ~role_required_admin(caller) THEN MsgAbort("403")
    ELSE /\ IF SchemaAbsent
            THEN ret' = Flashed(<<>>)
            ELSE \E rows \in list_threads_for_admin(threads, messages) : ret' = Rows(rows)
         /\ UNCHANGED <<threads, messages>>

\* GET /admin/threads: list_threads_for_admin is called outside any try, so
\* MessagingSchemaError leaves the handler and the request ends in the
\* server error page.
admin_threads(caller) ==
    IF ~role_required_admin(caller) THEN MsgAbort("403")
    ELSE IF SchemaAbsent THEN MsgAbort("500")
    ELSE /\ \E rows \in list_threads_for_admin(threads, messages) : ret' = Rows(rows)
         /\ UNCHANGED <<threads, messages>>

\* The thread ids the requests name.
SchemaThreadIds == 1..(MaxThreads + 1)

ScCreateBooking ==
    /\ Len(bookings) < MaxLcBookings
    /\ \E u \in Requesters :
        /\ create_booking(1, u, 0, 1, TRUE, NoNotes)
        /\ last' = AccessCall("create_booking", u, 0)
    /\ UNCHANGED <<req, threads, messages, clock>>

ScInbox ==
    \E caller \in Users :
        /\ inbox(caller)
        /\ last' = AccessCall("inbox", caller, 0)
        /\ UNCHANGED <<bookings, admin_logs, req, clock>>

\* GET or POST /messages/<thread_id>: _ensure_thread_access and get_messages
\* run inside the try; the error is flashed and the caller is sent to the
\* inbox.
ScThread ==
    \E caller \in Users, thread_id \in SchemaThreadIds, submit \in BOOLEAN :
        /\ IF SchemaAbsent
           THEN ret' = Redirect("warning") /\ UNCHANGED <<threads, messages>>
           ELSE thread(caller, thread_id, submit)
        /\ last' = AccessCall(IF submit THEN "reply" ELSE "thread", caller, thread_id)
        /\ UNCHANGED <<bookings, admin_logs, req, clock>>

\* GET /messages/<thread_id>/since: the error of _ensure_thread_access is
\* answered with jsonify([]) before ts is read.
ScSince ==
    \E caller \in Users, thread_id \in SchemaThreadIds, since \in SinceTexts \cup {NoTs} :
        /\ IF SchemaAbsent
           THEN ret' = Rows(<<>>) /\ UNCHANGED <<threads, messages>>
           ELSE thread_since(caller, thread_id, since)
        /\ last' = AccessCall("thread_since", caller, thread_id)
        /\ UNCHANGED <<bookings, admin_logs, req, clock>>

ScDashboard ==
    \E caller \in Users :
        /\ dashboard(caller)
        /\ last' = AccessCall("dashboard", caller, 0)
        /\ UNCHANGED <<bookings, admin_logs, req, clock>>

ScThreads ==
    \E caller \in Users :
        /\ admin_threads(caller)
        /\ last' = AccessCall("admin_threads", caller, 0)
        /\ UNCHANGED <<bookings, admin_logs, req, clock>>

\* GET or POST /admin/threads/<thread_id>: get_thread is called outside any
\* try, so MessagingSchemaError leaves the handler.
ScThreadDetail ==
    \E caller \in Users, thread_id \in SchemaThreadIds, submit \in BOOLEAN :
        /\ IF ~role_required_admin(caller) THEN MsgAbort("403")
           ELSE IF SchemaAbsent THEN MsgAbort("500")
           ELSE thread_detail(caller, thread_id, submit)
        /\ last' = AccessCall(IF submit THEN "admin_reply" ELSE "thread_detail",
                              caller, thread_id)
        /\ UNCHANGED <<bookings, admin_logs, req, clock>>

NextSchema ==
    \/ ScCreateBooking
    \/ ScInbox
    \/ ScThread
    \/ ScSince
    \/ ScDashboard
    \/ ScThreads
    \/ ScThreadDetail

SpecSchema == InitSchema /\ [][NextSchema]_vars

TypeOK ==
    /\ Len(bookings) <= MaxBookings
    /\ \A i \in DOMAIN bookings : bookings[i].status \in Statuses
    /\ Len(admin_logs) <= MaxLog

\* ======================================================== properties

Active(b) == b.status \in ActiveStatuses

\* Half-open intervals [s1, e1) and [s2, e2) have no instant in common.
Disjoint(s1, e1, s2, e2) == e1 <= s2 \/ e2 <= s1

\* The step is a call of op (every call rewrites last; a repeated identical
\* failing call leaves the whole state as it is and is a stuttering step).
Called(op) == last'.op = op /\ vars' # vars

\* Active bookings on the resource of the latest create_booking call that
\* share an instant with the requested slot, in the table before the call.
Blockers ==
    {i \in DOMAIN bookings :
        /\ bookings[i].resource_id = last'.resource_id
        /\ Active(bookings[i])
        /\ ~Disjoint(bookings[i].start_datetime, bookings[i].end_datetime,
                     last'.start, last'.end)}

\* C1: after any sequence of non-interleaved create/approve/reject/cancel/
\* complete calls from an empty table, two distinct pending-or-approved
\* bookings on one resource never overlap: A.end <= B.start or B.end <= A.start.
C1_OverlapLaw ==
    \A i \in DOMAIN bookings : \A j \in DOMAIN bookings :
        (/\ i # j
         /\ bookings[i].resource_id = bookings[j].resource_id
         /\ Active(bookings[i])
         /\ Active(bookings[j]))
        => Disjoint(bookings[i].start_datetime, bookings[i].end_datetime,
                    bookings[j].start_datetime, bookings[j].end_datetime)

\* Two active bookings share a resource, the later one created next to an
\* approved one.
C1_Witness ==
    \E i \in DOMAIN bookings : \E j \in DOMAIN bookings :
        /\ i < j
        /\ bookings[i].resource_id = bookings[j].resource_id
        /\ bookings[i].status = "approved"
        /\ Active(bookings[j])

\* C2: with the has_conflict read and the INSERT of concurrent create_booking
\* calls interleaving, no reachable state holds two overlapping active
\* bookings on one resource (check and insert act as one critical section).
C2_RaceFree ==
    \A i \in DOMAIN bookings :
        Active(bookings[i]) =>
            \A j \in DOMAIN bookings \ {i} :
                (bookings[j].resource_id = bookings[i].resource_id /\ Active(bookings[j]))
                => (bookings[j].end_datetime <= bookings[i].start_datetime
                    \/ bookings[j].start_datetime >= bookings[i].end_datetime)

\* C3: create_booking raises the conflict error and writes no row whenever an
\* existing pending or approved booking on the resource overlaps the slot, and
\* it raises it only then: rejected, cancelled and completed bookings never
\* cause a conflict.
C3_ConflictRejects ==
    [][Called("create_booking") =>
          /\ (Blockers # {} => (ret'.raised = "ValueError" /\ bookings' = bookings))
          /\ (Blockers = {} => (ret'.raised = "none" /\ Len(bookings') = Len(bookings) + 1))
      ]_vars

\* A create_booking call was refused while the table holds an active booking
\* overlapping the requested slot and an inactive one overlapping it as well.
C3_Witness ==
    /\ last.op = "create_booking"
    /\ ret.raised = "ValueError"
    /\ \E i \in DOMAIN bookings :
          /\ bookings[i].resource_id = last.resource_id
          /\ Active(bookings[i])
          /\ ~Disjoint(bookings[i].start_datetime, bookings[i].end_datetime,
                       last.start, last.end)
    /\ \E k \in DOMAIN bookings :
          /\ bookings[k].resource_id = last.resource_id
          /\ bookings[k].status \in TerminalStatuses
          /\ ~Disjoint(bookings[k].start_datetime, bookings[k].end_datetime,
                       last.start, last.end)

\* Active bookings on the resource of the latest call that touch the slot.
Touching ==
    {i \in DOMAIN bookings :
        /\ bookings[i].resource_id = last'.resource_id
        /\ Active(bookings[i])
        /\ (last'.start = bookings[i].end_datetime \/ last'.end = bookings[i].start_datetime)}

\* C4: a create_booking whose slot only touches an active booking on the
\* resource (start = existing.end or end = existing.start) and overlaps no
\* active booking succeeds and stores the slot; has_conflict is false for it.
C4_TouchingSucceeds ==
    [][(Called("create_booking") /\ Touching # {} /\ Blockers = {}) =>
          /\ ret'.raised = "none"
          /\ bookings' = Append(bookings, bookings'[Len(bookings')])
          /\ bookings'[Len(bookings')].resource_id = last'.resource_id
          /\ bookings'[Len(bookings')].start_datetime = last'.start
          /\ bookings'[Len(bookings')].end_datetime = last'.end
          /\ ~has_conflict(bookings, last'.resource_id, last'.start, last'.end, 0)
      ]_vars

\* The latest create_booking returned a booking that starts where an earlier
\* active booking on the resource ends.
C4_Witness ==
    /\ last.op = "create_booking"
    /\ ret.raised = "none"
    /\ \E i \in DOMAIN bookings :
          /\ i # ret.booking_id
          /\ bookings[i].resource_id = last.resource_id
          /\ Active(bookings[i])
          /\ bookings[i].end_datetime = bookings[ret.booking_id].start_datetime

\* C5: the booking returned by a successful create_booking is pending when
\* requires_approval is true and approved when it is false, and no call ever
\* moves a booking into pending, so an auto-approved booking is never pending.
C5_InitialStatus ==
    [][/\ (Called("create_booking") /\ ret'.raised = "none") =>
              bookings'[ret'.booking_id].status =
                  (IF last'.requires_approval THEN "pending" ELSE "approved")
       /\ \A i \in DOMAIN bookings :
              bookings[i].status # "pending" =>
                  (i \in DOMAIN bookings' /\ bookings'[i].status # "pending")
      ]_vars

\* The latest create_booking ran with requires_approval = false and returned
\* an approved booking.
C5_Witness ==
    /\ last.op = "create_booking"
    /\ ret.raised = "none"
    /\ ~last.requires_approval
    /\ bookings[ret.booking_id].status = "approved"

\* The row the latest call addressed, before and after the step.
Addressed == last'.booking_id

\* Every row except possibly the addressed one is left as it was.
OthersKept ==
    /\ DOMAIN bookings' = DOMAIN bookings
    /\ \A i \in DOMAIN bookings : i # Addressed => bookings'[i] = bookings[i]

\* C6: approve_booking changes a booking only when it is pending (it becomes
\* approved with the supplied notes); on any other status or an unknown id it
\* changes neither status nor notes and raises nothing, so a second approve of
\* the same booking keeps the status and notes of the first.
C6_ApproveOnlyPending ==
    [][Called("approve_booking") =>
          /\ ret'.raised = "none"
          /\ OthersKept
          /\ Addressed \in DOMAIN bookings =>
                IF bookings[Addressed].status = "pending"
                THEN bookings'[Addressed] =
                         [bookings[Addressed] EXCEPT !.status = "approved",
                                                     !.approval_notes = last'.notes]
                ELSE bookings'[Addressed] = bookings[Addressed]
          /\ (last.op = "approve_booking" /\ last.booking_id = Addressed
              /\ last.before = "pending") =>
                /\ bookings'[Addressed].status = "approved"
                /\ bookings'[Addressed].approval_notes = last.notes
      ]_vars

\* approve_booking was just called a second time, with other notes, on a
\* booking an earlier approve_booking had approved with the notes "n1", and
\* the booking still carries those.
C6_Witness ==
    /\ last.op = "approve_booking"
    /\ last.before = "approved"
    /\ last.booking_id \in DOMAIN bookings
    /\ bookings[last.booking_id].status = "approved"
    /\ bookings[last.booking_id].approval_notes = "n1"
    /\ last.notes # "n1"

\* C7: reject_booking sets status rejected and the supplied notes if and only
\* if the booking is pending; on approved, rejected, cancelled or completed it
\* changes neither and raises nothing.
C7_RejectOnlyPending ==
    [][Called("reject_booking") =>
          /\ ret'.raised = "none"
          /\ OthersKept
          /\ Addressed \in DOMAIN bookings =>
                /\ bookings[Addressed].status = "pending" =>
                      bookings'[Addressed] =
                          [bookings[Addressed] EXCEPT !.status = "rejected",
                                                      !.approval_notes = last'.notes]
                /\ bookings[Addressed].status # "pending" =>
                      /\ bookings'[Addressed].status = bookings[Addressed].status
                      /\ bookings'[Addressed].approval_notes =
                             bookings[Addressed].approval_notes
      ]_vars

\* reject_booking was just called with other notes on an approved booking,
\* which is still approved with its own notes.
C7_Witness ==
    /\ last.op = "reject_booking"
    /\ last.before = "approved"
    /\ last.booking_id \in DOMAIN bookings
    /\ bookings[last.booking_id].status = "approved"
    /\ bookings[last.booking_id].approval_notes # last.notes

\* C8: rejected, cancelled and completed are terminal: once a booking has one
\* of these statuses no approve, reject, cancel or complete call changes it.
C8_TerminalIsFinal ==
    [][\A i \in DOMAIN bookings :
          bookings[i].status \in TerminalStatuses =>
              bookings'[i].status = bookings[i].status
      ]_vars

\* C9: a booking's status becomes completed only from approved.
C9_CompletedOnlyFromApproved ==
    [][\A i \in DOMAIN bookings :
          (bookings[i].status # "completed" /\ bookings'[i].status = "completed") =>
              bookings[i].status = "approved"
      ]_vars

\* C10: cancel_booking and complete_booking are unconditional: on an existing
\* booking in any status the first leaves it cancelled and the second
\* completed, without an error.
C10_Unconditional ==
    [][/\ Called("cancel_booking") =>
              /\ ret'.raised = "none"
              /\ OthersKept
              /\ Addressed \in DOMAIN bookings =>
                     bookings'[Addressed].status = "cancelled"
       /\ Called("complete_booking") =>
              /\ ret'.raised = "none"
              /\ OthersKept
              /\ Addressed \in DOMAIN bookings =>
                     bookings'[Addressed].status = "completed"
      ]_vars

\* complete_booking was just called on a cancelled booking, now completed.
C10_Witness ==
    /\ last.op = "complete_booking"
    /\ last.before = "cancelled"
    /\ last.booking_id \in DOMAIN bookings
    /\ bookings[last.booking_id].status = "completed"

\* C11: create_booking fails (with an error, whatever its type) and writes no
\* row whenever start >= end, so that no stored booking has
\* start_datetime >= end_datetime.
C11_InvalidIntervalRejected ==
    [][/\ (Called("create_booking") /\ last'.start >= last'.end) =>
              (ret'.raised # "none" /\ bookings' = bookings)
       /\ \A i \in DOMAIN bookings' :
              bookings'[i].start_datetime < bookings'[i].end_datetime
      ]_vars

\* The caller the claim lets change booking b through the handler op.
C12_Allowed(op, caller, b) ==
    IF op = "cancel"
    THEN caller = b.requester_id \/ role[caller] = "admin"
    ELSE caller = owner_id[b.resource_id] \/ role[caller] = "admin"

\* C12: approve, reject and complete requests take effect only for the owner
\* of the booking's resource or an administrator, cancel only for the
\* booking's requester or an administrator; any other caller gets 403 and the
\* bookings stay as they are.
C12_AuthorizedOnly ==
    [][/\ (/\ last'.op \in {"approve", "reject", "cancel", "complete",
                             "admin_approve_booking", "admin_reject_booking"}
           /\ vars' # vars
           /\ last'.booking_id \in DOMAIN bookings
           /\ ~C12_Allowed(last'.op, last'.caller, bookings[last'.booking_id]))
          => (ret'.raised = "403" /\ bookings' = bookings)
       /\ \A i \in DOMAIN bookings :
             bookings'[i] # bookings[i] =>
                 /\ last'.booking_id = i
                 /\ C12_Allowed(last'.op, last'.caller, bookings[i])
      ]_vars

\* The requester of a pending booking on a resource owned by someone else
\* asked to approve it and got 403; the booking is still pending.
C12_Witness ==
    /\ last.op = "approve"
    /\ ret.raised = "403"
    /\ last.booking_id \in DOMAIN bookings
    /\ bookings[last.booking_id].requester_id = last.caller
    /\ owner_id[bookings[last.booking_id].resource_id] # last.caller
    /\ bookings[last.booking_id].status = "pending"

\* C13: the audit insert of approve_booking and reject_booking is
\* fire-and-forget: when it fails, the status change is still stored and the
\* operation raises nothing to its caller.
C13_LogFireAndForget ==
    [][(last'.op \in {"approve_booking", "reject_booking"} /\ vars' # vars
        /\ last'.log_failed) =>
          /\ bookings' = (IF last'.op = "approve_booking"
                          THEN ApproveUpdate(bookings, last'.booking_id, last'.notes)
                          ELSE RejectUpdate(bookings, last'.booking_id, last'.notes))
          /\ ret'.raised = "none"
      ]_vars

\* The participants of stored thread t, written out from the tables: the
\* users that sent or received one of its messages, with the owner of the
\* resource it is about, or the requester of the booking it is about and
\* the owner of that booking's resource.
Participants(t) ==
    LET corr == {u \in Users : \E i \in DOMAIN messages :
                    /\ messages[i].thread_id = t
                    /\ (messages[i].sender_id = u \/ messages[i].receiver_id = u)}
        ctx == threads[t]
    IN  IF ctx.context_type = "resource" /\ ctx.context_id \in Resources
        THEN corr \cup {owner_id[ctx.context_id]}
        ELSE IF ctx.context_type = "booking" /\ ctx.context_id \in DOMAIN bookings
             THEN corr \cup {bookings[ctx.context_id].requester_id,
                             owner_id[bookings[ctx.context_id].resource_id]}
             ELSE corr

\* C14: viewing, answering or polling a stored thread by a caller that is
\* neither one of its participants nor an administrator fails with 403,
\* appends no message and returns none; a request that succeeds was made
\* by a participant or an administrator.
C14_ParticipantsOrAdminOnly ==
    [][(/\ last'.op \in {"thread", "reply", "thread_since"}
        /\ vars' # vars
        /\ last'.thread_id \in DOMAIN threads
        /\ last'.caller \notin Participants(last'.thread_id)
        /\ role[last'.caller] # "admin") =>
            (/\ ret' = Raised("403")
             /\ messages' = messages
             /\ threads' = threads)
      ]_vars

\* A student who is neither the requester of the booking nor the owner of
\* its resource asked for the booking's thread and was refused.
C14_Witness ==
    /\ last.op = "thread"
    /\ ret.raised = "403"
    /\ last.thread_id \in DOMAIN threads
    /\ threads[last.thread_id].context_type = "booking"
    /\ threads[last.thread_id].context_id \in DOMAIN bookings
    /\ role[last.caller] = "student"
    /\ last.caller # bookings[threads[last.thread_id].context_id].requester_id

\* C15: the participant set the thread page is rendered with is exactly the
\* owner of the resource (resource thread), or the requester of the booking
\* and the owner of its resource (booking thread), or nobody (general
\* thread), united with the senders and receivers of the thread's
\* messages.
C15_DerivedParticipants ==
    [][(/\ last'.op = "thread"
        /\ vars' # vars
        /\ ret'.raised = "none"
        /\ \/ threads[last'.thread_id].context_type = "general"
           \/ /\ threads[last'.thread_id].context_type = "resource"
              /\ threads[last'.thread_id].context_id \in Resources
           \/ /\ threads[last'.thread_id].context_type = "booking"
              /\ threads[last'.thread_id].context_id \in DOMAIN bookings) =>
            ret'.participants = Participants(last'.thread_id)
      ]_vars

\* The page of a booking thread without any message lists the requester of
\* the booking and the owner of its resource.
C15_Witness ==
    /\ last.op = "thread"
    /\ ret.raised = "none"
    /\ threads[last.thread_id].context_type = "booking"
    /\ threads[last.thread_id].context_id \in DOMAIN bookings
    /\ \A i \in DOMAIN messages : messages[i].thread_id # last.thread_id
    /\ ret.participants = {bookings[threads[last.thread_id].context_id].requester_id,
                           owner_id[bookings[threads[last.thread_id].context_id].resource_id]}
    /\ Cardinality(ret.participants) = 2

\* The step is a validated start request for a thread on context_type.
StartRequest(context_type) ==
    /\ Called("start")
    /\ last'.valid
    /\ last'.context_type = context_type

\* The requester of booking b and the owner of its resource.
BookingParties(b) == {bookings[b].requester_id, owner_id[bookings[b].resource_id]}

\* The start request of the step is for stored booking last'.context_id and
\* names a caller and a receiver that are both parties of it.
BothParties ==
    /\ last'.context_id \in DOMAIN bookings
    /\ last'.caller \in BookingParties(last'.context_id)
    /\ last'.receiver_id \in BookingParties(last'.context_id)

\* C16 as stated: a start request in booking context whose caller and
\* receiver are not both the requester of the booking or the owner of its
\* resource is refused with 403 (404 when the booking does not exist) and
\* writes no thread and no message; a booking thread is only created for
\* two such users.
C16_BookingStartRefused ==
    [][StartRequest("booking") =>
          IF BothParties
          THEN TRUE
          ELSE /\ ret' = (IF last'.context_id \in DOMAIN bookings
                          THEN Raised("403") ELSE Raised("404"))
               /\ threads' = threads
               /\ messages' = messages
      ]_vars

\* C16 amended: as above, except that a request whose receiver is the caller
\* is answered with a redirect (and a warning) instead of 403 or 404; it
\* writes nothing either.
C16_BookingStartRefusedOrRedirected ==
    [][StartRequest("booking") =>
          IF BothParties /\ last'.receiver_id # last'.caller
          THEN TRUE
          ELSE /\ ret' = (IF last'.receiver_id = last'.caller
                          THEN Redirect("warning")
                          ELSE IF last'.context_id \in DOMAIN bookings
                               THEN Raised("403") ELSE Raised("404"))
               /\ threads' = threads
               /\ messages' = messages
      ]_vars

\* A user who is neither the requester of a stored booking nor the owner of
\* its resource asked to open a thread about it with the owner, and got 403.
C16_Witness ==
    /\ last.op = "start"
    /\ last.valid
    /\ last.context_type = "booking"
    /\ last.context_id \in DOMAIN bookings
    /\ last.caller \notin BookingParties(last.context_id)
    /\ last.receiver_id = owner_id[bookings[last.context_id].resource_id]
    /\ ret = Raised("403")
    /\ threads = <<>>

\* C17: a validated start request in resource context that names a receiver
\* other than the owner of the resource and the caller gets 403 and writes
\* no thread and no message; a resource thread is created only with the
\* owner or the caller as receiver.
C17_ResourceStartReceiver ==
    [][(StartRequest("resource") /\ last'.context_id \in Resources) =>
          /\ last'.receiver_id \notin {owner_id[last'.context_id], last'.caller} =>
                (/\ ret' = Raised("403")
                 /\ threads' = threads
                 /\ messages' = messages)
          /\ threads' # threads =>
                last'.receiver_id \in {owner_id[last'.context_id], last'.caller}
      ]_vars

\* Somebody asked to open a thread about a resource with a user who is not
\* its owner, and got 403.
C17_Witness ==
    /\ last.op = "start"
    /\ last.valid
    /\ last.context_type = "resource"
    /\ last.context_id \in Resources
    /\ last.receiver_id \notin {owner_id[last.context_id], last.caller}
    /\ ret = Raised("403")

\* C18: every stored thread without context has no context id, and every
\* stored resource or booking thread names a stored resource or booking.
C18_ThreadContextValid ==
    \A t \in DOMAIN threads :
        /\ threads[t].context_type = "general" => threads[t].context_id = 0
        /\ threads[t].context_type = "resource" => threads[t].context_id \in Resources
        /\ threads[t].context_type = "booking" => threads[t].context_id \in DOMAIN bookings

\* The instant a stored message was posted at (its timestamp as the DAO
\* hands it out, a datetime).
PostedAt(i) == fromisoformat(messages[i].timestamp)

\* rows lists every id of S once, in non-decreasing order of posting time.
ListsAscending(rows, S) ==
    /\ Len(rows) = Cardinality(S)
    /\ {rows[k] : k \in DOMAIN rows} = S
    /\ \A j, k \in DOMAIN rows : j < k => PostedAt(rows[j]) <= PostedAt(rows[k])

\* C19: a posted message carries a timestamp that is not earlier than that
\* of any message posted to the same thread before it, and get_messages
\* returns all messages of the thread in non-decreasing timestamp order.
C19_MessageOrder ==
    [][/\ Called("post_message") =>
            \A i \in DOMAIN messages :
                messages[i].thread_id = last'.thread_id =>
                    fromisoformat(messages[i].timestamp)
                        <= fromisoformat(messages'[Len(messages')].timestamp)
       /\ Called("get_messages") =>
            ListsAscending(ret'.rows,
                {i \in DOMAIN messages : messages[i].thread_id = last'.thread_id})
      ]_vars

\* get_messages listed two messages of a thread that were posted at
\* different times, the earlier one first.
C19_Witness ==
    /\ last.op = "get_messages"
    /\ Len(ret.rows) >= 2
    /\ PostedAt(ret.rows[1]) < PostedAt(ret.rows[Len(ret.rows)])

\* C20: get_messages_since(thread, t) returns, in ascending timestamp order,
\* exactly the messages of the thread that were posted later than t.
C20_SinceExact ==
    [][Called("get_messages_since") =>
          ListsAscending(ret'.rows,
              {i \in DOMAIN messages :
                  /\ messages[i].thread_id = last'.thread_id
                  /\ PostedAt(i) > fromisoformat(last'.timestamp)})
      ]_vars

\* C24: approve, reject, cancel and complete, and the admin approve and
\* reject routes, answer a request for a booking id that is not stored with
\* 404 and write nothing: no booking row changes and no audit row is added.
C24_MissingBookingNotFound ==
    [][(/\ last'.op \in {"approve", "reject", "cancel", "complete",
                          "admin_approve_booking", "admin_reject_booking"}
        /\ vars' # vars
        /\ last'.booking_id \notin DOMAIN bookings
        /\ ret'.raised # "403") =>
            (/\ ret'.raised = "404"
             /\ bookings' = bookings
             /\ admin_logs' = admin_logs)
      ]_vars

\* C25: under any sequence of approve_booking, reject_booking, cancel_booking
\* and complete_booking calls a booking that is neither pending nor approved
\* never becomes pending or approved again, and an approved booking never
\* becomes pending again; an active row that was not there before is the
\* row of a create_booking call.
C25_ActiveNeverRegained ==
    [][/\ \A i \in DOMAIN bookings :
            /\ ~Active(bookings[i]) => ~Active(bookings'[i])
            /\ bookings[i].status = "approved" => bookings'[i].status # "pending"
       /\ \A i \in DOMAIN bookings' \ DOMAIN bookings : last'.op = "create_booking"
      ]_vars

\* approve_booking was just called on a booking that had been rejected,
\* cancelled or completed, and the booking is still not active.
C25_Witness ==
    /\ last.op = "approve_booking"
    /\ last.before \in TerminalStatuses
    /\ last.booking_id \in DOMAIN bookings
    /\ ~Active(bookings[last.booking_id])

\* C27: an audit row 'Approved booking N' ('Rejected booking N') is appended
\* only by a call that moved booking N from pending to approved (rejected);
\* an approve_booking or reject_booking call on a booking that is not
\* pending or not stored appends nothing.
C27_AuditTruthful ==
    [][admin_logs' # admin_logs =>
          /\ last'.op \in {"approve_booking", "reject_booking"}
          /\ StatusOf(bookings, last'.booking_id) = "pending"
          /\ StatusOf(bookings', last'.booking_id) =
                 (IF last'.op = "approve_booking" THEN "approved" ELSE "rejected")
          /\ admin_logs'[Len(admin_logs')].action =
                 <<IF last'.op = "approve_booking"
                   THEN "Approved booking" ELSE "Rejected booking",
                   last'.booking_id>>
      ]_vars

\* C26: of an approve_booking and a reject_booking that run at the same
\* time on one pending booking, the call whose UPDATE comes first sets the
\* status and the notes, and the later call changes nothing.
C26_OneDecides ==
    [][\A w \in Workers :
          /\ (req[w].pc = "idle" /\ req'[w].pc = "log") =>
                IF bookings[req'[w].booking_id].status = "pending"
                THEN bookings' =
                        [bookings EXCEPT ![req'[w].booking_id] =
                            [@ EXCEPT !.status = (IF req'[w].op = "approve_booking"
                                                  THEN "approved" ELSE "rejected"),
                                      !.approval_notes = req'[w].notes]]
                ELSE bookings' = bookings
          /\ (req[w].pc = "log" /\ req'[w].pc = "idle" /\ req[w].rival) =>
                /\ bookings' = bookings
                /\ admin_logs' = admin_logs
      ]_vars

\* The stored messages of thread t, and those user u sent or received.
MessagesOf(t) == {i \in DOMAIN messages : messages[i].thread_id = t}

MessagesWith(t, u) ==
    {i \in MessagesOf(t) : messages[i].sender_id = u \/ messages[i].receiver_id = u}

\* The instant of the latest message of thread t (it has one).
LastPosted(t) ==
    CHOOSE c \in {PostedAt(i) : i \in MessagesOf(t)} :
        \A i \in MessagesOf(t) : PostedAt(i) <= c

\* rows lists every thread of S once, threads with messages first, latest
\* activity first, threads without messages last.
ListsByActivity(rows, S) ==
    /\ Len(rows) = Cardinality(S)
    /\ {rows[k].thread_id : k \in DOMAIN rows} = S
    /\ \A j, k \in DOMAIN rows :
          j < k =>
             \/ MessagesOf(rows[k].thread_id) = {}
             \/ /\ MessagesOf(rows[j].thread_id) # {}
                /\ LastPosted(rows[j].thread_id) >= LastPosted(rows[k].thread_id)

\* The row reports the number of messages of its thread and the time of
\* the latest of them (NULL and 0 for a thread without messages).
ReportsThread(row) ==
    /\ row.message_count = Cardinality(MessagesOf(row.thread_id))
    /\ IF MessagesOf(row.thread_id) = {}
       THEN row.last_activity = NullActivity
       ELSE /\ row.last_activity # NullActivity
            /\ fromisoformat(row.last_activity) = LastPosted(row.thread_id)

\* C21: list_threads_for_user(u) returns exactly the threads with a message
\* from or to u, each once, the thread with the latest activity first.
C21_UserThreads ==
    last.op = "list_threads_for_user" =>
        ListsByActivity(ret.rows,
            {t \in DOMAIN threads : MessagesWith(t, last.user_id) # {}})

\* C22: list_threads_for_admin returns every stored thread once, whoever
\* takes part in it, with the number of its messages and the time of the
\* latest (NULL and 0 for a thread without messages), latest activity
\* first and the threads without messages after all others.
C22_AdminThreads ==
    last.op = "list_threads_for_admin" =>
        /\ ListsByActivity(ret.rows, DOMAIN threads)
        /\ \A k \in DOMAIN ret.rows : ReportsThread(ret.rows[k])

\* The admin listing gave a thread with messages followed by a thread
\* without any, reported with NULL and 0.
C22_Witness ==
    /\ last.op = "list_threads_for_admin"
    /\ Len(ret.rows) >= 2
    /\ ret.rows[1].message_count > 0
    /\ ret.rows[Len(ret.rows)].message_count = 0
    /\ ret.rows[Len(ret.rows)].last_activity = NullActivity

\* C30: every row of list_threads_for_user(u) reports the number of all
\* messages of its thread and the time of the latest of them, also when
\* some of them are neither from nor to u.
C30_UserRowsReportThread ==
    last.op = "list_threads_for_user" =>
        \A k \in DOMAIN ret.rows : ReportsThread(ret.rows[k])

\* C29: after any sequence of start requests and replies (thread page and
\* admin thread page) no stored message has its sender as receiver.
C29_NoSelfMessage ==
    \A i \in DOMAIN messages : messages[i].sender_id # messages[i].receiver_id

\* A user answered a thread whose last message was their own: the answer
\* went to the receiver of that message.
C29_Witness ==
    /\ last.op \in {"reply", "admin_reply"}
    /\ ret.raised = "none"
    /\ Len(messages) >= 2
    /\ messages[Len(messages)].thread_id = messages[Len(messages) - 1].thread_id
    /\ messages[Len(messages)].sender_id = messages[Len(messages) - 1].sender_id
    /\ messages[Len(messages)].receiver_id = messages[Len(messages) - 1].receiver_id

\* C28: a client that keeps polling a thread with the timestamp of the last
\* message it has seen is given every message of the thread, sooner or
\* later, and none twice, also when two messages carry the same timestamp.
C28_PollingDeliversOnce ==
    /\ [](Following => ~req[Client].again)
    /\ \A i \in 1..MaxMessages :
          [](( /\ Following
               /\ i \in DOMAIN messages
               /\ messages[i].thread_id = PollThread) =>
                 <>(Following /\ i \in req[Client].seen))

\* C23: with the messaging tables absent, a request to one of the read
\* sites (inbox, thread page, polling endpoint, admin dashboard, admin
\* thread list, admin thread page) that passes the role check is answered
\* without an error, with no thread and no message on it.
ReadSites ==
    {"inbox", "thread", "thread_since", "dashboard", "admin_threads", "thread_detail"}

Degraded(r) == r.raised = "none" /\ ("rows" \in DOMAIN r => r.rows = <<>>)

C23_ReadSitesDegrade ==
    [][(/\ last'.op \in ReadSites
        /\ vars' # vars
        /\ SchemaAbsent
        /\ ret'.raised # "403") => Degraded(ret')]_vars

====
